---- MODULE Spec2Model ----
(***************************************************************************)
(* SplitPane (src/src/kit/RadioGroup.tsx, lines 159-295): a React function *)
(* component with two panes and a draggable handle.                        *)
(*                                                                         *)
(* Lengths are kept in half pixels (Px(n) is n pixels) so that Math.round  *)
(* has something to round: pointer coordinates may lie on a half pixel.    *)
(*                                                                         *)
(* React's scheduling, as far as the component depends on it:              *)
(*   - a handler only records a state update; the closures registered by   *)
(*     the effects keep the values of the render that registered them      *)
(*     until the component renders again;                                  *)
(*   - an update made inside a discrete event (mousedown, mouseup) is      *)
(*     rendered, with its effects, before the next event is dispatched;    *)
(*   - every other update (mousemove, the size observer, the parent's new  *)
(*     props, an update made by an effect) is rendered later: events may   *)
(*     be dispatched in between.                                           *)
(*                                                                         *)
(* Three more components have a specification of their own, beside a       *)
(* SplitPane that stays as mounted: Avatar (src/src/kit/Avatar.tsx),       *)
(* RadioGroup (src/src/kit/RadioGroup.tsx, lines 40-157) and GlideTable    *)
(* (src/unnamed/part_002).                                                 *)
(***************************************************************************)
EXTENDS Integers, Sequences, FiniteSets, TLC

\* ------------------------------------------------------------ bounds

\* Milliseconds that pass in one step of the clock.
TickMs == 8

\* Changes of the props or of the observed size that may be waiting for
\* React's next render.
MaxPending == 1

\* ------------------------------------------------------------ values

Px(n) == 2 * n

None == "none"

\* Pane (lines 168-171)
Pane == [Left |-> "left", Right |-> "right"]

\* throttle(8, ...) (line 205)
ThrottleDelay == 8

\* `pointerRelativeXpos - 8` (line 234), in pixels
HandleInset == 8

\* initialWidth = 400 (line 193), in pixels
DefaultInitialWidth == 400

\* minimumWidths = { left: 200, right: 200 } (line 194)
DefaultMinimumWidths == [left |-> Px(200), right |-> Px(200)]

\* The inputs the parent may supply.
InitialWidths == {Px(DefaultInitialWidth), Px(150)}
MinimumWidthsSet == {DefaultMinimumWidths, [left |-> Px(350), right |-> Px(275)]}
OnChanges == {None, "f", "g"}
HidePanes == {None, Pane.Left, Pane.Right}

\* The bounds the size observer may report; the first is the container before
\* its first measurement.
ZeroSize == [x |-> 0, width |-> 0]
Sizes == {ZeroSize, [x |-> Px(20), width |-> Px(300)], [x |-> Px(20), width |-> Px(1000)]}

\* Pointer positions (e.clientX), in half pixels: 100, 528.5 and 5000 pixels.
ClientXs == {Px(100), Px(528) + 1, Px(5000)}

\* e.button
Buttons == {0, 2}

\* ------------------------------------------------------------ Math

MathMax(a, b) == IF a >= b THEN a ELSE b

MathMin(a, b) == IF a <= b THEN a ELSE b

\* Math.round of a length in half pixels: the nearest whole pixel, a half
\* rounding up.
MathRound(v) == 2 * ((v + 1) \div 2)

\* ------------------------------------------------------------ throttle
\*
\* throttle-debounce's throttle(delay, callback, { noTrailing: true }), as the
\* component uses it (lines 204-207, 241, 260): the wrapper keeps lastExec and
\* a cancelled flag; a call returns at once when cancelled, executes the
\* callback when Date.now() - lastExec > delay and otherwise, with noTrailing,
\* does nothing (no timer is set); cancel() sets the flag, for good.

\* The time since a throttle last executed is kept up to this value: the
\* throttle only asks whether it exceeds the delay.
Saturated == ThrottleDelay + 1

\* throttle(delay, callback, { noTrailing: true }): lastExec = 0, so the time
\* elapsed at the first call exceeds every delay.
NewThrottle(callback) == [callback |-> callback, elapsed |-> Saturated, cancelled |-> FALSE]

\* `onChange && throttle(8, onChange, { noTrailing: true })` (line 205)
MakeThrottledOnChange(oc) == NewThrottle(oc)

\* Whether a call of the throttled function executes the callback:
\* not cancelled and elapsed > delay (leading edge; noTrailing sets no timer).
ThrottleExecutes(t) ==
  /\ t.callback # None
  /\ ~t.cancelled
  /\ t.elapsed > ThrottleDelay

\* The throttle after a call: lastExec = Date.now() when it executed.
ThrottleCall(t) == IF ThrottleExecutes(t) THEN [t EXCEPT !.elapsed = 0] ELSE t

\* throttledOnChange?.cancel()
ThrottleCancel(t) == IF t.callback = None THEN t ELSE [t EXCEPT !.cancelled = TRUE]

\* The passage of d milliseconds.
Age(e, d) == MathMin(e + d, Saturated)

\* ------------------------------------------------------------ state

VARIABLES
  initialWidth,       \* props the parent currently supplies
  minimumWidths,
  onChange,
  hidePane,
  size,               \* useResize().size
  isDragging,         \* useState(false)
  width,              \* useState(initialWidth)
  throttledOnChange,  \* useMemo(..., [onChange]) of the last render
  depInitialWidth,    \* [initialWidth] of the last render
  handleDrag,         \* the mousemove listener on document
  handleDragStop,     \* the mouseup listener on document
  dom,                \* what the last render put on the page
  ev,                 \* the last step
  evClientX,          \* e.clientX of the last step, a mousemove a listener took
  out,                \* the onChange calls of the last step
  sinceThrottled,     \* time since the last move-phase onChange call of this drag
  pending,            \* updates the last render has not seen, counted up to MaxPending
  mounted,            \* the component is in the tree
  handleDragStart,    \* the mousedown listener on the handle
  avatar,             \* an Avatar: its text and what it rendered
  radio,              \* a RadioGroup: its state, its ref and its last measurement
  table               \* a GlideTable: its props, its refs and the calls of its last step

vars == <<initialWidth, minimumWidths, onChange, hidePane, size, isDragging, width,
          throttledOnChange, depInitialWidth, handleDrag, handleDragStop, dom,
          ev, evClientX, out, sinceThrottled, pending, mounted, handleDragStart,
          avatar, radio, table>>

props == <<initialWidth, minimumWidths, onChange, hidePane>>

\* The state of the other components, which no step of SplitPane touches.
otherVars == <<avatar, radio, table>>

\* An Avatar that is not in the tree.
NoAvatar == [text |-> <<>>, rendered |-> FALSE, initials |-> <<>>]

\* The SizeInfo of useState (RadioGroup, line 51).
NoSizes == [baseHeight |-> 0, baseWidth |-> 0, parentWidth |-> 0]

\* A RadioGroup that is not in the tree. originalWidth = 0 stands for the
\* undefined of an empty ref: the code tests it with `!originalWidth.current`,
\* which takes 0 and undefined alike.
NoRadio ==
  [ hasIconsAndLabels |-> FALSE, originalWidth |-> 0, showLabels |-> TRUE,
    sizes |-> NoSizes, parentRectWidth |-> 0, sizesChanged |-> FALSE, ev |-> "none" ]

\* No cell clicked yet: the null of clickedCellRef (GlideTable, line 157).
NoCell == [col |-> -1, row |-> -1]

\* A GlideTable that is not in the tree.
NoTable ==
  [ staticColumns |-> <<>>, sortableColumnIds |-> <<>>, pinnedColumnsCount |-> 0,
    page |-> 0, pageSize |-> 0, selection |-> {}, loaded |-> {}, handlers |-> {},
    clickedCellRef |-> NoCell, scrollPositionSetCount |-> 0,
    calls |-> <<>>, scrolls |-> 0, ev |-> "none", args |-> <<>> ]

NoHandleDrag == [on |-> FALSE, x |-> 0, width |-> 0, minimumWidths |-> DefaultMinimumWidths]

NoHandleDragStop == [on |-> FALSE, width |-> 0, onChange |-> None]

\* No move-phase call yet in this drag: a value no elapsed time takes.
NoCall == Saturated + 1

\* ------------------------------------------------------------ render

\* The render with hideHandle = (hidePane === Pane.Left).
RenderDomHandleLeftOnly(hp, w) ==
  [ hideHandle |-> (hp = Pane.Left),
    leftPaneFull |-> (hp = Pane.Right),
    leftPaneWidth |-> IF hp # Pane.Right THEN w ELSE 0,
    leftPaneDisplay |-> IF hp = Pane.Left THEN "none" ELSE "initial",
    showRightPane |-> (hp # Pane.Right) ]

\* The render with leftPaneWidth = width whatever pane is hidden.
RenderDomWidthAlways(hp, w) ==
  [ hideHandle |-> (hp = Pane.Left \/ hp = Pane.Right),
    leftPaneFull |-> FALSE,
    leftPaneWidth |-> w,
    leftPaneDisplay |-> IF hp = Pane.Left THEN "none" ELSE "initial",
    showRightPane |-> (hp # Pane.Right) ]

\* The style of the rendered elements (lines 268-289): leftPaneFull stands for
\* the width '100%', and showRightPane for the class of that name.
RenderDom(hp, w) ==
  [ hideHandle |-> (hp = Pane.Left \/ hp = Pane.Right),
    leftPaneFull |-> (hp = Pane.Right),
    leftPaneWidth |-> IF hp # Pane.Right THEN w ELSE 0,
    leftPaneDisplay |-> IF hp = Pane.Left THEN "none" ELSE "initial",
    showRightPane |-> (hp # Pane.Right) ]

\* useMemo (lines 204-207): a new throttle when onChange is not the one of
\* the last render.
RenderMemo(t) == IF onChange = t.callback THEN t ELSE MakeThrottledOnChange(onChange)

\* The mousemove effect with `if (isDragging) return`.
RenderHandleDragInverted(d) ==
  IF ~d
  THEN [on |-> TRUE, x |-> size.x, width |-> size.width, minimumWidths |-> minimumWidths]
  ELSE NoHandleDrag

\* The mousemove effect without `if (!isDragging) return`.
RenderHandleDragAlways(d) ==
  [on |-> TRUE, x |-> size.x, width |-> size.width, minimumWidths |-> minimumWidths]

\* The mousemove effect (lines 223-252) of a render with isDragging = d.
RenderHandleDrag(d) ==
  IF d
  THEN [on |-> TRUE, x |-> size.x, width |-> size.width, minimumWidths |-> minimumWidths]
  ELSE NoHandleDrag

\* The mouseup effect without `if (!isDragging) return`.
RenderHandleDragStopAlways(d, w) == [on |-> TRUE, width |-> w, onChange |-> onChange]

\* The mouseup effect (lines 254-266) of a render with isDragging = d, width = w.
RenderHandleDragStop(d, w) ==
  IF d THEN [on |-> TRUE, width |-> w, onChange |-> onChange] ELSE NoHandleDragStop

\* The initialWidth effect without its dependency list.
RenderWidthEveryRender(w) == initialWidth

\* The initialWidth effect (line 209): setWidth(initialWidth) when the
\* dependency changed.
RenderWidth(w) == IF initialWidth # depInitialWidth THEN initialWidth ELSE w

\* One render of the component with state (d, w) and throttle t, and the
\* effects of that render.
RenderPass(d, w, t) ==
  /\ throttledOnChange' = RenderMemo(t)
  /\ depInitialWidth' = initialWidth
  /\ width' = RenderWidth(w)
  /\ handleDrag' = RenderHandleDrag(d)
  /\ handleDragStop' = RenderHandleDragStop(d, w)
  /\ dom' = RenderDom(hidePane, w)
  /\ pending' = IF RenderWidth(w) # w THEN 1 ELSE 0

\* ------------------------------------------------------------ Init

\* useState with the default of the prop in place of the prop.
MountWidthDefault(iw) == Px(DefaultInitialWidth)

\* useState(initialWidth) (line 199)
MountWidth(iw) == iw

\* The mount of a SplitPane.
InitSplitPane ==
  /\ initialWidth \in InitialWidths
  /\ minimumWidths \in MinimumWidthsSet
  /\ onChange \in OnChanges
  /\ hidePane \in HidePanes
  /\ size = ZeroSize
  /\ isDragging = FALSE
  /\ width = MountWidth(initialWidth)
  /\ throttledOnChange = MakeThrottledOnChange(onChange)
  /\ depInitialWidth = initialWidth
  /\ handleDrag = RenderHandleDrag(isDragging)
  /\ handleDragStop = RenderHandleDragStop(isDragging, width)
  /\ dom = RenderDom(hidePane, width)
  /\ ev = "mount"
  /\ evClientX = 0
  /\ out = <<>>
  /\ sinceThrottled = NoCall
  /\ pending = 0
  /\ mounted = TRUE
  /\ handleDragStart = TRUE

Init ==
  /\ InitSplitPane
  /\ avatar = NoAvatar
  /\ radio = NoRadio
  /\ table = NoTable

\* ------------------------------------------------------------ inputs

SetInitialWidth(v) ==
  /\ mounted
  /\ UNCHANGED <<mounted, handleDragStart, otherVars>>
  /\ pending < MaxPending
  /\ pending' = pending + 1
  /\ v # initialWidth
  /\ initialWidth' = v
  /\ ev' = "props"
  /\ evClientX' = 0
  /\ out' = <<>>
  /\ UNCHANGED <<minimumWidths, onChange, hidePane, size, isDragging, width,
                 throttledOnChange, depInitialWidth, handleDrag, handleDragStop, dom,
                 sinceThrottled>>

SetMinimumWidths(m) ==
  /\ mounted
  /\ UNCHANGED <<mounted, handleDragStart, otherVars>>
  /\ pending < MaxPending
  /\ pending' = pending + 1
  /\ m # minimumWidths
  /\ minimumWidths' = m
  /\ ev' = "props"
  /\ evClientX' = 0
  /\ out' = <<>>
  /\ UNCHANGED <<initialWidth, onChange, hidePane, size, isDragging, width,
                 throttledOnChange, depInitialWidth, handleDrag, handleDragStop, dom,
                 sinceThrottled>>

SetOnChange(f) ==
  /\ mounted
  /\ UNCHANGED <<mounted, handleDragStart, otherVars>>
  /\ pending < MaxPending
  /\ pending' = pending + 1
  /\ f # onChange
  /\ onChange' = f
  /\ ev' = "props"
  /\ evClientX' = 0
  /\ out' = <<>>
  /\ UNCHANGED <<initialWidth, minimumWidths, hidePane, size, isDragging, width,
                 throttledOnChange, depInitialWidth, handleDrag, handleDragStop, dom,
                 sinceThrottled>>

SetHidePane(h) ==
  /\ mounted
  /\ UNCHANGED <<mounted, handleDragStart, otherVars>>
  /\ pending < MaxPending
  /\ pending' = pending + 1
  /\ h # hidePane
  /\ hidePane' = h
  /\ ev' = "props"
  /\ evClientX' = 0
  /\ out' = <<>>
  /\ UNCHANGED <<initialWidth, minimumWidths, onChange, size, isDragging, width,
                 throttledOnChange, depInitialWidth, handleDrag, handleDragStop, dom,
                 sinceThrottled>>

\* The size observer reports new bounds of the container.
Resize(s) ==
  /\ mounted
  /\ UNCHANGED <<mounted, handleDragStart, otherVars>>
  /\ pending < MaxPending
  /\ pending' = pending + 1
  /\ s # size
  /\ size' = s
  /\ ev' = "resize"
  /\ evClientX' = 0
  /\ out' = <<>>
  /\ UNCHANGED <<props, isDragging, width, throttledOnChange, depInitialWidth,
                 handleDrag, handleDragStop, dom, sinceThrottled>>

Tick ==
  /\ mounted
  /\ UNCHANGED <<mounted, handleDragStart, otherVars>>
  /\ throttledOnChange' = [throttledOnChange EXCEPT !.elapsed = Age(@, TickMs)]
  /\ sinceThrottled' = IF sinceThrottled = NoCall THEN NoCall ELSE Age(sinceThrottled, TickMs)
  /\ ev' = "tick"
  /\ evClientX' = 0
  /\ out' = <<>>
  /\ UNCHANGED <<props, size, isDragging, width, depInitialWidth, handleDrag,
                 handleDragStop, dom, pending>>

\* A render React scheduled after an update outside a discrete event.
Render ==
  /\ mounted
  /\ UNCHANGED <<mounted, handleDragStart, otherVars>>
  /\ RenderPass(isDragging, width, throttledOnChange)
  /\ ev' = "render"
  /\ evClientX' = 0
  /\ out' = <<>>
  /\ UNCHANGED <<props, size, isDragging, sinceThrottled>>

\* ------------------------------------------------------------ handlers

\* handleDragStart taking every button.
DragStartIgnoresNone(b) == FALSE

\* `if (e.button !== 0) return` of handleDragStart (line 213).
DragStartIgnores(b) == b # 0

\* handleDragStart with setIsDragging((d) => !d).
DragStartToggles(d) == ~d

\* setIsDragging(true) of handleDragStart (line 215): the next isDragging.
DragStartState(d) == TRUE

\* handleDragStart (lines 212-216), a mousedown on the handle, and the render
\* of its update. The handle takes no pointer event while it is not displayed,
\* and setIsDragging(true) while already dragging updates nothing.
MouseDown(b) ==
  /\ mounted
  /\ ~dom.hideHandle
  /\ UNCHANGED <<mounted, handleDragStart, otherVars>>
  /\ ev' = IF b = 0 THEN "mousedown" ELSE "mousedown-other"
  /\ evClientX' = 0
  /\ out' = <<>>
  /\ IF ~handleDragStart \/ DragStartIgnores(b) \/ DragStartState(isDragging) = isDragging
     THEN UNCHANGED <<props, size, isDragging, width, throttledOnChange, depInitialWidth,
                      handleDrag, handleDragStop, dom, sinceThrottled, pending>>
     ELSE /\ isDragging' = DragStartState(isDragging)
          /\ RenderPass(DragStartState(isDragging), width, throttledOnChange)
          /\ sinceThrottled' = NoCall
          /\ UNCHANGED <<props, size>>

\* newWidth without the Math.min against the container's width.
NewWidthNoUpper(h, cx) ==
  MathRound(MathMax(h.minimumWidths.left, (cx - h.x) - Px(HandleInset)))

\* newWidth with the two bounds applied in the other order.
NewWidthLowerLast(h, cx) ==
  MathRound(
    MathMax(
      h.minimumWidths.left,
      MathMin((cx - h.x) - Px(HandleInset), h.width - h.minimumWidths.right)))

\* newWidth of handleDrag (lines 229-237) for the listener h and e.clientX = cx.
NewWidth(h, cx) ==
  MathRound(
    MathMin(
      MathMax(h.minimumWidths.left, (cx - h.x) - Px(HandleInset)),
      h.width - h.minimumWidths.right))

\* handleDrag (lines 225-242), a mousemove anywhere in the document.
MouseMove(cx) ==
  /\ UNCHANGED <<mounted, handleDragStart, otherVars>>
  /\ ev' = "mousemove"
  /\ evClientX' = IF handleDrag.on THEN cx ELSE 0
  /\ IF ~handleDrag.on
     THEN /\ out' = <<>>
          /\ UNCHANGED <<props, size, isDragging, width, throttledOnChange,
                         depInitialWidth, handleDrag, handleDragStop, dom, sinceThrottled,
                         pending>>
     ELSE LET newWidth == NewWidth(handleDrag, cx)
              fires == ThrottleExecutes(throttledOnChange)
          IN /\ width' = newWidth
             /\ throttledOnChange' = ThrottleCall(throttledOnChange)
             /\ out' = IF fires
                       THEN <<[fn |-> throttledOnChange.callback, width |-> newWidth]>>
                       ELSE <<>>
             /\ sinceThrottled' = IF fires THEN 0 ELSE sinceThrottled
             /\ pending' = MathMin(pending + 1, MaxPending)
             /\ UNCHANGED <<props, size, isDragging, depInitialWidth, handleDrag,
                            handleDragStop, dom>>

\* handleDragStop without its `onChange?.(width)`: the drag end is left to the
\* throttled channel.
FinalCallsDropped(h) == <<>>

\* The onChange calls of handleDragStop (line 261) for the listener h.
FinalCalls(h) ==
  IF h.onChange = None THEN <<>> ELSE <<[fn |-> h.onChange, width |-> h.width]>>

\* handleDragStop taking every button.
DragStopIgnoresNone(b) == FALSE

\* `if (e.button !== 0) return` of handleDragStop (line 257).
DragStopIgnores(b) == b # 0

\* handleDragStop (lines 256-262), a mouseup anywhere in the document, and the
\* render of its update.
MouseUp(b) ==
  /\ UNCHANGED <<mounted, handleDragStart, otherVars>>
  /\ ev' = IF b = 0 THEN "mouseup" ELSE "mouseup-other"
  /\ evClientX' = 0
  /\ IF ~handleDragStop.on \/ DragStopIgnores(b)
     THEN /\ out' = <<>>
          /\ UNCHANGED <<props, size, isDragging, width, throttledOnChange,
                         depInitialWidth, handleDrag, handleDragStop, dom, sinceThrottled,
                         pending>>
     ELSE /\ isDragging' = FALSE
          /\ out' = FinalCalls(handleDragStop)
          /\ RenderPass(FALSE, width, ThrottleCancel(throttledOnChange))
          /\ UNCHANGED <<props, size, sinceThrottled>>

\* ------------------------------------------------------------ unmount

\* The mousedown effect returning no cleanup.
CleanupHandleDragStartKept(l) == l

\* The cleanup of the mousedown effect (line 220): the listener is removed
\* from the handle.
CleanupHandleDragStart(l) == FALSE

\* The mousemove effect returning no cleanup.
CleanupHandleDragKept(h) == h

\* The cleanup of the mousemove effect (lines 245-247).
CleanupHandleDrag(h) == NoHandleDrag

\* The mouseup effect returning no cleanup.
CleanupHandleDragStopKept(h) == h

\* The cleanup of the mouseup effect (lines 263-265).
CleanupHandleDragStop(h) == NoHandleDragStop

\* React removes the component from the tree and runs the cleanup of every
\* effect. The state and the props of the removed component stay as they were:
\* nothing renders them any more.
Unmount ==
  /\ mounted
  /\ mounted' = FALSE
  /\ handleDragStart' = CleanupHandleDragStart(handleDragStart)
  /\ handleDrag' = CleanupHandleDrag(handleDrag)
  /\ handleDragStop' = CleanupHandleDragStop(handleDragStop)
  /\ ev' = "unmount"
  /\ evClientX' = 0
  /\ out' = <<>>
  /\ UNCHANGED <<props, size, isDragging, width, throttledOnChange, depInitialWidth, dom,
                 sinceThrottled, pending, otherVars>>

\* ------------------------------------------------------------ specification

Next ==
  \/ \E v \in InitialWidths : SetInitialWidth(v)
  \/ \E m \in MinimumWidthsSet : SetMinimumWidths(m)
  \/ \E f \in OnChanges : SetOnChange(f)
  \/ \E h \in HidePanes : SetHidePane(h)
  \/ \E s \in Sizes : Resize(s)
  \/ Tick
  \/ Render
  \/ \E b \in Buttons : MouseDown(b)
  \/ \E cx \in ClientXs : MouseMove(cx)
  \/ \E b \in Buttons : MouseUp(b)
  \/ Unmount

Spec == Init /\ [][Next]_vars

\* ------------------------------------------------------------ Avatar

\* The longest text of an Avatar.
MaxNameLen == 5

\* Characters of a text: letters in both cases, and white space.
Letters == {"a", "B", "c"}
WhiteSpace == {" "}
Chars == Letters \cup WhiteSpace

Names == UNION {[1..n -> Chars] : n \in 0..MaxNameLen}

\* String.prototype.toUpperCase on one character.
ToUpperCase(c) ==
  CASE c = "a" -> "A"
    [] c = "c" -> "C"
    [] OTHER -> c

\* name.split(/\s+/): the pieces between the runs of white space, the empty
\* piece before a leading run and after a trailing run included. `parts` are
\* the pieces closed so far, `cur` the piece being read from position i, and
\* inRun says that position i - 1 was white space.
RECURSIVE SplitFrom(_, _, _, _, _)
SplitFrom(name, i, parts, cur, inRun) ==
  IF i > Len(name)
  THEN Append(parts, cur)
  ELSE IF name[i] \in WhiteSpace
       THEN IF inRun
            THEN SplitFrom(name, i + 1, parts, cur, TRUE)
            ELSE SplitFrom(name, i + 1, Append(parts, cur), <<>>, TRUE)
       ELSE SplitFrom(name, i + 1, parts, Append(cur, name[i]), FALSE)

Split(name) == SplitFrom(name, 1, <<>>, <<>>, FALSE)

\* n.charAt(0).toUpperCase(): empty for the empty piece.
Initial(n) == IF n = <<>> THEN <<>> ELSE <<ToUpperCase(n[1])>>

\* parts.map(...).join('')
RECURSIVE JoinInitials(_)
JoinInitials(parts) ==
  IF parts = <<>> THEN <<>> ELSE Initial(Head(parts)) \o JoinInitials(Tail(parts))

\* getInitials keeping the first two initials.
getInitialsFirstTwo(name) ==
  LET initials == JoinInitials(Split(name))
  IN IF Len(initials) > 2 THEN SubSeq(initials, 1, 2) ELSE initials

\* getInitials (Avatar.tsx lines 36-47).
getInitials(name) ==
  LET initials == JoinInitials(Split(name))
  IN IF Len(initials) > 2
     THEN <<initials[1]>> \o SubSeq(initials, Len(initials), Len(initials))
     ELSE initials

splitPaneVars ==
  <<initialWidth, minimumWidths, onChange, hidePane, size, isDragging, width,
    throttledOnChange, depInitialWidth, handleDrag, handleDragStop, dom, ev, evClientX,
    out, sinceThrottled, pending, mounted, handleDragStart>>

\* An Avatar about to render some text, beside a SplitPane with its default props.
InitAvatar ==
  /\ InitSplitPane
  /\ initialWidth = Px(DefaultInitialWidth)
  /\ minimumWidths = DefaultMinimumWidths
  /\ onChange = None
  /\ hidePane = None
  /\ avatar \in {[text |-> n, rendered |-> FALSE, initials |-> <<>>] : n \in Names}
  /\ radio = NoRadio
  /\ table = NoTable

\* The render of the Avatar (Avatar.tsx line 87): it shows getInitials(text).
RenderAvatar ==
  /\ ~avatar.rendered
  /\ avatar' = [avatar EXCEPT !.rendered = TRUE, !.initials = getInitials(avatar.text)]
  /\ UNCHANGED <<splitPaneVars, radio, table>>

NextAvatar == RenderAvatar

SpecAvatar == InitAvatar /\ [][NextAvatar]_vars

\* ------------------------------------------------------------ RadioGroup

PARENT_WIDTH_BUFFER == 16

HEIGHT_LIMIT == 50

\* What getBoundingClientRect can report for the group and for its parent.
BaseWidths == {0, 80, 120}
BaseHeights == {0, 32, 64}
ParentWidths == {0, 16, 100, 200}

\* A SplitPane with its default props and no pane hidden.
InitDefaultSplitPane ==
  /\ InitSplitPane
  /\ initialWidth = Px(DefaultInitialWidth)
  /\ minimumWidths = DefaultMinimumWidths
  /\ onChange = None
  /\ hidePane = None

\* The mount of a RadioGroup (lines 47-51), with options that have icons and
\* labels or not. Its first effect finds the sizes 0 and returns.
InitRadioGroup ==
  /\ InitDefaultSplitPane
  /\ avatar = NoAvatar
  /\ table = NoTable
  /\ radio \in {[NoRadio EXCEPT !.hasIconsAndLabels = h, !.ev = "mount"] : h \in BOOLEAN}

\* The measurement keeping every base width as the original one.
MeasuredOriginalWidthLatest(ow, baseWidth) == baseWidth

\* `if (!originalWidth.current) originalWidth.current = baseRect.width` (line 99)
MeasuredOriginalWidth(ow, baseWidth) == IF ow = 0 THEN baseWidth ELSE ow

\* The argument of setSizes (lines 101-105).
MeasuredSizes(baseWidth, baseHeight, parentWidth) ==
  [ baseHeight |-> baseHeight, baseWidth |-> baseWidth,
    parentWidth |-> parentWidth - PARENT_WIDTH_BUFFER ]

\* The resize effect (lines 89-109): it runs after the mount and whenever the
\* size observer or the options changed, and calls a throttle it has just
\* made, which therefore runs the measurement at once. The group has the base
\* rectangle bw x bh and its parent the width pw. setSizes takes a new object,
\* so the effect of the sizes runs after it.
Measure(bw, bh, pw) ==
  /\ radio.ev # "none"
  /\ radio' =
       IF ~radio.hasIconsAndLabels
       THEN [radio EXCEPT !.ev = "measure"]
       ELSE [radio EXCEPT
               !.originalWidth = MeasuredOriginalWidth(@, bw),
               !.sizes = MeasuredSizes(bw, bh, pw),
               !.parentRectWidth = pw,
               !.sizesChanged = TRUE,
               !.ev = "measure"]
  /\ UNCHANGED <<splitPaneVars, avatar, table>>

\* The updater with the height test dropped: labels go whenever they show.
NextShowLabelsAlwaysHides(prev, ow, sz) ==
  IF ow = 0 THEN prev
  ELSE IF prev THEN FALSE
  ELSE IF ~prev /\ ow < sz.parentWidth THEN TRUE
  ELSE prev

\* The updater of setShowLabels (lines 77-82).
NextShowLabels(prev, ow, sz) ==
  IF ow = 0 THEN prev
  ELSE IF prev /\ sz.baseHeight > HEIGHT_LIMIT THEN FALSE
  ELSE IF ~prev /\ ow < sz.parentWidth THEN TRUE
  ELSE prev

\* The effect of the sizes (lines 73-83) after a render in which sizes or
\* hasIconsAndLabels changed, and the render that runs its updater.
ShowLabelsEffect ==
  /\ radio.ev # "none"
  /\ radio.sizesChanged
  /\ radio' =
       IF \/ ~radio.hasIconsAndLabels
          \/ radio.sizes.baseWidth = 0 \/ radio.sizes.parentWidth = 0
       THEN [radio EXCEPT !.sizesChanged = FALSE, !.ev = "effect"]
       ELSE [radio EXCEPT
               !.showLabels = NextShowLabels(@, radio.originalWidth, radio.sizes),
               !.sizesChanged = FALSE,
               !.ev = "effect"]
  /\ UNCHANGED <<splitPaneVars, avatar, table>>

\* The parent passes options with another hasIconsAndLabels (lines 54-57):
\* both effects have it as a dependency.
SetOptions(h) ==
  /\ radio.ev # "none"
  /\ h # radio.hasIconsAndLabels
  /\ radio' = [radio EXCEPT !.hasIconsAndLabels = h, !.sizesChanged = TRUE, !.ev = "options"]
  /\ UNCHANGED <<splitPaneVars, avatar, table>>

NextRadioGroup ==
  \/ \E bw \in BaseWidths, bh \in BaseHeights, pw \in ParentWidths : Measure(bw, bh, pw)
  \/ ShowLabelsEffect
  \/ \E h \in BOOLEAN : SetOptions(h)

SpecRadioGroup == InitRadioGroup /\ [][NextRadioGroup]_vars

\* ------------------------------------------------------------ GlideTable

\* The numbers of static columns, of sortable columns and of rows.
NumStatic == 2
NumSortable == 3
NumRows == 3

SCROLL_SET_COUNT_NEEDED == 1

\* Column ids: the static ones are negative, the sortable ones positive.
StaticColumns == [i \in 1..NumStatic |-> 0 - i]
SortableColumnIds == [i \in 1..NumSortable |-> i]

\* Indices are those of the code: they start at 0.
Columns == 0..(NumStatic + NumSortable - 1)
Rows == 0..(NumRows - 1)

\* The columns whose renderer gives a cell with data.link.href (isLinkCell,
\* lines 126-128).
LinkColumns == {1}

Pages == {0 - 1, 2}
PageSizes == {10}
Selections == {{}, {1}, Rows}
LoadedRows == {Rows, Rows \ {1}}
AllHandlers ==
  {"onLinkClick", "onSelectionChange", "onPinnedColumnsCountChange", "onSortableColumnChange"}

\* The mount of a GlideTable with some props (lines 130-157).
InitGlideTable ==
  /\ InitDefaultSplitPane
  /\ avatar = NoAvatar
  /\ radio = NoRadio
  /\ table \in
       { [ staticColumns |-> StaticColumns, sortableColumnIds |-> SortableColumnIds,
           pinnedColumnsCount |-> p, page |-> pg, pageSize |-> ps, selection |-> sel,
           loaded |-> ld, handlers |-> hs, clickedCellRef |-> NoCell,
           scrollPositionSetCount |-> 0, calls |-> <<>>, scrolls |-> 0, ev |-> "mount",
           args |-> <<>> ] :
         p \in 0..NumSortable, pg \in Pages, ps \in PageSizes, sel \in Selections,
         ld \in LoadedRows, hs \in {AllHandlers, {}} }

\* f?.(...): the call is made when the prop is supplied.
Call(fn, c) == IF fn \in table.handlers THEN <<c>> ELSE <<>>

\* ---- the scroll position effect

\* The effect without its first line: it scrolls in every render.
ScrollNeededAlways(count) == TRUE

\* `if (scrollPositionSetCount.get() >= SCROLL_SET_COUNT_NEEDED) return` (line 161)
ScrollNeeded(count) == ~(count >= SCROLL_SET_COUNT_NEEDED)

\* rowOffset (line 163)
RowOffset(page, pageSize) == MathMax(page * pageSize, 0)

\* A render of the table and its effect without dependencies (lines 160-170).
\* hasGrid says that gridRef.current is set, validBounds that getBounds gave
\* bounds whose x is a number.
RenderTable(hasGrid, validBounds) ==
  /\ table.ev # "none"
  /\ table' =
       IF ScrollNeeded(table.scrollPositionSetCount) /\ hasGrid /\ validBounds
       THEN [table EXCEPT
               !.calls = <<[fn |-> "scrollTo", col |-> 0,
                            row |-> RowOffset(table.page, table.pageSize)]>>,
               !.scrollPositionSetCount = @ + 1,
               !.scrolls = MathMin(@ + 1, 2),
               !.ev = "render",
               !.args = <<hasGrid, validBounds>>]
       ELSE [table EXCEPT !.calls = <<>>, !.ev = "render", !.args = <<hasGrid, validBounds>>]
  /\ UNCHANGED <<splitPaneVars, avatar, radio>>

\* ---- onCellClicked

\* The range of a shift-click from the row clicked before.
ShiftRange(previousRow, row) ==
  IF previousRow < row THEN <<previousRow, row + 1>> ELSE <<row, previousRow + 1>>

\* selection.rows.hasIndex(row), and selection.rows.toArray().includes(row)
HasIndex(rows, row) == row \in rows

SelectionType(rows, row) == IF HasIndex(rows, row) THEN "remove" ELSE "add"

\* onCellClicked recording the cell of a link too.
RecordsClickOfAnyCell(col) == TRUE

\* The click is recorded in clickedCellRef: only in the branch of the cells
\* that are not links (lines 320-337).
RecordsClick(col) == col \notin LinkColumns

\* The calls of onCellClicked (lines 316-338) on a loaded row.
CellClickedCalls(col, row, shiftKey) ==
  IF col \in LinkColumns
  THEN Call("onLinkClick", [fn |-> "onLinkClick", col |-> col, row |-> row])
  ELSE IF shiftKey
       THEN IF table.clickedCellRef # NoCell
            THEN Call("onSelectionChange",
                      [fn |-> "onSelectionChange",
                       type |-> SelectionType(table.selection, row),
                       range |-> ShiftRange(table.clickedCellRef.row, row)])
            ELSE <<>>
       ELSE Call("onSelectionChange",
                 [fn |-> "onSelectionChange",
                  type |-> SelectionType(table.selection, row),
                  range |-> <<row, row + 1>>])

\* onCellClicked (lines 312-342): Loadable.forEach runs its body for a loaded
\* row only.
CellClicked(col, row, shiftKey) ==
  /\ table.ev # "none"
  /\ table' =
       IF row \notin table.loaded
       THEN [table EXCEPT !.calls = <<>>, !.ev = "click", !.args = <<col, row, shiftKey>>]
       ELSE [table EXCEPT
               !.calls = CellClickedCalls(col, row, shiftKey),
               !.clickedCellRef = IF RecordsClick(col) THEN [col |-> col, row |-> row] ELSE @,
               !.ev = "click",
               !.args = <<col, row, shiftKey>>]
  /\ UNCHANGED <<splitPaneVars, avatar, radio>>

\* ---- onColumnMoved

\* The start of Array.prototype.splice for the index i, from 0: a negative
\* one counts from the end, and none goes outside the array.
SpliceStart(cols, i) == IF i < 0 THEN MathMax(Len(cols) + i, 0) ELSE MathMin(i, Len(cols))

\* const [toMove] = cols.splice(i, 1): what is taken out, and what is left.
Undefined == 0
Spliced(cols, i) ==
  IF SpliceStart(cols, i) < Len(cols) THEN cols[SpliceStart(cols, i) + 1] ELSE Undefined
SpliceOut(cols, i) ==
  SubSeq(cols, 1, SpliceStart(cols, i)) \o SubSeq(cols, SpliceStart(cols, i) + 2, Len(cols))

\* cols.splice(i, 0, x)
SpliceIn(cols, i, x) ==
  SubSeq(cols, 1, SpliceStart(cols, i)) \o <<x>>
    \o SubSeq(cols, SpliceStart(cols, i) + 1, Len(cols))

\* onColumnMoved without its first line.
StaticColumnStaysNever(startIdx) == FALSE

\* `if (columnIdsStartIdx < staticColumns.length) return` (line 384)
StaticColumnStays(startIdx) == startIdx < Len(table.staticColumns)

\* newCols without the Math.max of the destination.
NewColsUnclamped(startIdx, endIdx) ==
  LET sortableColumnIdsStartIdx == startIdx - Len(table.staticColumns)
      sortableColumnIdsEndIdx == endIdx - Len(table.staticColumns)
      toMove == Spliced(table.sortableColumnIds, sortableColumnIdsStartIdx)
  IN SpliceIn(SpliceOut(table.sortableColumnIds, sortableColumnIdsStartIdx),
              sortableColumnIdsEndIdx, toMove)

\* newCols (lines 395-400)
NewCols(startIdx, endIdx) ==
  LET sortableColumnIdsStartIdx == startIdx - Len(table.staticColumns)
      sortableColumnIdsEndIdx == MathMax(endIdx - Len(table.staticColumns), 0)
      toMove == Spliced(table.sortableColumnIds, sortableColumnIdsStartIdx)
  IN SpliceIn(SpliceOut(table.sortableColumnIds, sortableColumnIdsStartIdx),
              sortableColumnIdsEndIdx, toMove)

\* The calls of onPinnedColumnsCountChange (lines 387-393).
PinnedCalls(startIdx, endIdx) ==
  LET pinnedColumnEnd == Len(table.staticColumns) + table.pinnedColumnsCount
      isIntoPinned == startIdx >= pinnedColumnEnd /\ endIdx < pinnedColumnEnd
      isOutOfPinned == startIdx < pinnedColumnEnd /\ endIdx >= pinnedColumnEnd
  IN (IF isIntoPinned
      THEN Call("onPinnedColumnsCountChange",
                [fn |-> "onPinnedColumnsCountChange", count |-> table.pinnedColumnsCount + 1])
      ELSE <<>>)
     \o
     (IF isOutOfPinned
      THEN Call("onPinnedColumnsCountChange",
                [fn |-> "onPinnedColumnsCountChange", count |-> table.pinnedColumnsCount - 1])
      ELSE <<>>)

\* onColumnMoved (lines 381-410) for a move from startIdx to endIdx, both in
\* the list of columns.
ColumnMoved(startIdx, endIdx) ==
  /\ table.ev # "none"
  /\ table' =
       IF StaticColumnStays(startIdx)
       THEN [table EXCEPT !.calls = <<>>, !.ev = "move", !.args = <<startIdx, endIdx>>]
       ELSE [table EXCEPT
               !.calls = PinnedCalls(startIdx, endIdx)
                         \o Call("onSortableColumnChange",
                                 [fn |-> "onSortableColumnChange",
                                  cols |-> NewCols(startIdx, endIdx)]),
               !.ev = "move",
               !.args = <<startIdx, endIdx>>]
  /\ UNCHANGED <<splitPaneVars, avatar, radio>>

NextGlideTable ==
  \/ \E hasGrid \in BOOLEAN, validBounds \in BOOLEAN : RenderTable(hasGrid, validBounds)
  \/ \E col \in Columns, row \in Rows, shiftKey \in BOOLEAN : CellClicked(col, row, shiftKey)
  \/ \E startIdx \in Columns, endIdx \in Columns : ColumnMoved(startIdx, endIdx)

SpecGlideTable == InitGlideTable /\ [][NextGlideTable]_vars

\* ------------------------------------------------------------ claims

\* The step is a primary mouseup that the document's mouseup listener handles.
DragStopStep == ev' = "mouseup" /\ handleDragStop.on

\* The step is a mousemove that the document's mousemove listener handles.
DragStep == ev' = "mousemove" /\ handleDrag.on

\* C1: a primary mouseup handled while Dragging calls the onChange of its
\* listener exactly once inside the handler, and ends the session: the state is
\* Idle and both document listeners are gone, whatever the session's moves
\* emitted before.
C1_FinalOnChangeOnce ==
  [][(DragStopStep /\ handleDragStop.onChange # None) =>
       /\ Len(out') = 1
       /\ out'[1].fn = handleDragStop.onChange
       /\ ~isDragging'
       /\ ~handleDrag'.on /\ ~handleDragStop'.on]_vars

\* A drag that emitted through the throttle has just ended with its one final call.
C1_Witness == ev = "mouseup" /\ Len(out) = 1 /\ ~isDragging /\ sinceThrottled # NoCall

\* C2 (as claimed): the width handed to the final onChange is the current
\* leftWidthPx at the time of the mouseup.
C2_FinalIsCurrentWidth ==
  [][(DragStopStep /\ ev = "mousemove" /\ out' # <<>>) => out'[1].width = width]_vars

\* C3: a step taken while Idle calls no onChange: after the mouseup handler
\* has run nothing is emitted until a later drag session is under way.
C3_NoEmissionWhileIdle == [][~isDragging => out' = <<>>]_vars

\* A second primary mouseup after a drag that emitted: nothing is called.
C3_Witness == ev = "mouseup" /\ out = <<>> /\ ~isDragging /\ sinceThrottled # NoCall

\* C4 (as claimed): two move-phase onChange calls of one drag session are more
\* than 8ms apart.
C4_MovePhaseRateLimited ==
  [][(DragStep /\ out' # <<>> /\ sinceThrottled # NoCall) =>
       sinceThrottled > ThrottleDelay]_vars

\* C5 (as claimed): a handled mousemove more than 8ms after the throttle's last
\* execution calls onChange at once with the new width, in every session.
C5_LeadingEdgeEverySession ==
  [][(DragStep /\ throttledOnChange.callback # None
        /\ throttledOnChange.elapsed > ThrottleDelay) =>
       out' = <<[fn |-> throttledOnChange.callback, width |-> width']>>]_vars

\* clamp(v, lo, hi) for lo <= hi.
Clamp(v, lo, hi) == IF v < lo THEN lo ELSE IF v > hi THEN hi ELSE v

\* The container of the listener h is wide enough for both minimums.
Fits(h) == h.width - h.minimumWidths.right >= h.minimumWidths.left

\* C6: when the container fits both minimums, a handled mousemove sets
\* leftWidthPx to round(clamp(pointerX - containerX - 8, left, width - right))
\* for the pointer position of the event, which lies within the two bounds.
C6_MoveSetsClampedWidth ==
  [][(DragStep /\ Fits(handleDrag)) =>
       LET lo == handleDrag.minimumWidths.left
           hi == handleDrag.width - handleDrag.minimumWidths.right
       IN /\ width' = MathRound(Clamp(evClientX' - handleDrag.x - Px(HandleInset), lo, hi))
          /\ lo <= width' /\ width' <= hi]_vars

\* A pointer at 528.5 in a container at x = 20 has just been rounded to 501.
C6_Witness ==
  /\ ev = "mousemove" /\ handleDrag.on /\ Fits(handleDrag)
  /\ evClientX = Px(528) + 1 /\ handleDrag.x = Px(20)
  /\ width = Px(501)

\* C7 (as claimed): when the container is too narrow for both minimums, a
\* handled mousemove sets leftWidthPx to minimumWidths.left.
C7_NarrowPinsToLeftMinimum ==
  [][(DragStep /\ ~Fits(handleDrag)) => width' = handleDrag.minimumWidths.left]_vars

C9_IdleWidthChangesOnlyByInitialWidth ==
  [][(~isDragging /\ width' # width) =>
       (initialWidth # depInitialWidth /\ width' = initialWidth)]_vars

\* A mousemove right after a drag that left a dragged width: it is kept.
C9_Witness ==
  /\ ev = "mousemove" /\ ~isDragging
  /\ sinceThrottled # NoCall
  /\ width \notin InitialWidths

\* The step renders the component.
RenderStep ==
  \/ ev' = "render"
  \/ ev' = "mousedown" /\ ~isDragging
  \/ DragStopStep

\* C10: a render resets leftWidthPx to initialWidth when initialWidth is not
\* the one of the render before, dragging or not, and leaves it alone when it is.
C10_ResetExactlyOnInitialWidthChange ==
  [][RenderStep =>
       width' = IF initialWidth # depInitialWidth THEN initialWidth ELSE width]_vars

\* During a drag a render has shown the dragged width and then reset it.
C10_Witness ==
  /\ ev = "render" /\ isDragging
  /\ ~dom.leftPaneFull /\ dom.leftPaneWidth \notin InitialWidths
  /\ width = initialWidth

\* C11: the state of the mount. leftWidthPx is the initialWidth prop, the
\* state is Idle and the document has no listener; with hidePane unset the
\* left region is displayed with the width initialWidth and the handle is
\* displayed.
C11_MountState ==
  ev = "mount" =>
    /\ width = initialWidth
    /\ ~isDragging
    /\ ~handleDrag.on /\ ~handleDragStop.on
    /\ hidePane = None =>
         /\ dom.leftPaneDisplay = "initial"
         /\ ~dom.leftPaneFull /\ dom.leftPaneWidth = initialWidth
         /\ ~dom.hideHandle

\* A mount with an initialWidth other than the default and no pane hidden.
C11_Witness ==
  /\ ev = "mount" /\ hidePane = None
  /\ initialWidth # Px(DefaultInitialWidth) /\ dom.leftPaneWidth = initialWidth

\* C12: Idle becomes Dragging only in a primary mousedown on the displayed
\* handle, and a mousedown of another button changes neither isDragging nor
\* leftWidthPx, attaches no document listener and calls no onChange.
C12_OnlyPrimaryPressStartsDrag ==
  [][/\ (~isDragging /\ isDragging') => (ev' = "mousedown" /\ ~dom.hideHandle)
     /\ ev' = "mousedown-other" =>
          /\ UNCHANGED <<isDragging, width, handleDrag, handleDragStop>>
          /\ out' = <<>>]_vars

\* A press of another button on the handle of an idle pane.
C12_Witness == ev = "mousedown-other" /\ ~isDragging /\ ~handleDrag.on /\ ~handleDragStop.on

\* C13: the document has its mousemove listener and its mouseup listener
\* exactly while the mounted component is Dragging, so neither handler runs
\* while Idle.
C13_ListenersExactlyWhileDragging ==
  /\ handleDrag.on <=> (mounted /\ isDragging)
  /\ handleDragStop.on <=> (mounted /\ isDragging)

\* A render in the middle of a drag has registered both listeners again.
C13_Witness == ev = "render" /\ isDragging /\ handleDrag.on /\ handleDragStop.on

\* The step is a pointer event.
PointerStep == ev' \in {"mousedown", "mousedown-other", "mousemove", "mouseup", "mouseup-other"}

\* C14: the unmount removes the mousedown listener of the handle and both
\* document listeners, also in the middle of a drag, and no step after the
\* unmount updates the state of the component or calls an onChange.
C14_NothingAfterUnmount ==
  [][/\ ~mounted' => (~handleDragStart' /\ ~handleDrag'.on /\ ~handleDragStop'.on)
     /\ ~mounted =>
          /\ UNCHANGED <<isDragging, width, throttledOnChange, dom>>
          /\ out' = <<>>]_vars

\* A mousemove after the unmount of a pane that a drag was moving.
C14_Witness == ~mounted /\ isDragging /\ ev = "mousemove" /\ sinceThrottled # NoCall

\* C15: at the mount and in every render the handle is displayed exactly when
\* hidePane is unset; Left and Right both hide it.
C15_HandleVisibleIffNoPaneHidden ==
  /\ ev = "mount" => (dom.hideHandle <=> hidePane # None)
  /\ [][RenderStep => (dom'.hideHandle <=> hidePane # None)]_vars

\* A render with the right pane hidden has hidden the handle.
C15_Witness == ev = "render" /\ hidePane = Pane.Right /\ dom.hideHandle

\* C16 (as claimed): in every state rendered with hidePane set, a pointer event
\* does not make isDragging true, a mousemove does not change leftWidthPx and
\* no onChange is called, also when hidePane was set in the middle of a drag.
C16_HiddenHandleNoInteraction ==
  [][(hidePane # None /\ dom.hideHandle /\ PointerStep) =>
       /\ ~(~isDragging /\ isDragging')
       /\ ev' = "mousemove" => width' = width
       /\ out' = <<>>]_vars

\* C17 (as claimed): every render displays the left pane unless hidePane is
\* Left, and a displayed left pane has the width leftWidthPx, with hidePane =
\* Right too.
C17_DisplayedLeftPaneHasLeftWidth ==
  [][RenderStep =>
       /\ dom'.leftPaneDisplay = "none" <=> hidePane = Pane.Left
       /\ hidePane # Pane.Left => (~dom'.leftPaneFull /\ dom'.leftPaneWidth = width)]_vars

\* C17 (amended): a render does not display the left pane exactly when
\* hidePane is Left, and then leftWidthPx changes only by the initialWidth
\* effect; with hidePane = Right the left pane is displayed with the width 100%
\* and the right region loses its showRightPane class; in every other render
\* the width of the left pane is leftWidthPx.
C17_LeftPaneWidthUnlessRightHidden ==
  [][RenderStep =>
       /\ dom'.leftPaneDisplay = "none" <=> hidePane = Pane.Left
       /\ hidePane = Pane.Left => (width' # width => initialWidth # depInitialWidth)
       /\ hidePane = Pane.Right => (dom'.leftPaneFull /\ ~dom'.showRightPane)
       /\ hidePane # Pane.Right =>
            (~dom'.leftPaneFull /\ dom'.leftPaneWidth = width /\ dom'.showRightPane)]_vars

\* A render with the right pane hidden after a drag moved leftWidthPx.
C17_Witness ==
  /\ ev = "render" /\ hidePane = Pane.Right /\ dom.leftPaneFull
  /\ width # initialWidth /\ depInitialWidth = initialWidth

\* The positions of a text where a word starts: a character that is not white
\* space, at the start of the text or after white space.
WordStarts(text) ==
  {i \in 1..Len(text) : text[i] \notin WhiteSpace /\ (i = 1 \/ text[i - 1] \in WhiteSpace)}

UpperCaseLetters == {"A", "B", "C"}

\* C18: the rendered initials are the upper-cased first characters of the
\* words of the text, in order, and with more than two words only those of the
\* first and of the last word, so that they are never more than two characters.
C18_InitialsOfFirstAndLastWord ==
  avatar.rendered =>
    LET text == avatar.text
        starts == WordStarts(text)
        first == CHOOSE i \in starts : \A j \in starts : i <= j
        last == CHOOSE i \in starts : \A j \in starts : j <= i
    IN /\ avatar.initials =
            CASE Cardinality(starts) = 0 -> <<>>
              [] Cardinality(starts) = 1 -> <<ToUpperCase(text[first])>>
              [] OTHER -> <<ToUpperCase(text[first]), ToUpperCase(text[last])>>
       /\ Len(avatar.initials) <= 2
       /\ \A i \in 1..Len(avatar.initials) : avatar.initials[i] \in UpperCaseLetters

\* A text of three words has rendered the initials of the first and the last.
C18_Witness ==
  /\ avatar.rendered
  /\ avatar.text = <<"B", " ", "a", " ", "c">>
  /\ avatar.initials = <<"B", "C">>

\* C19: Dragging becomes Idle only in a primary mouseup that the document's
\* listener handles, and a mouseup of another button during a drag leaves
\* isDragging, both listeners and the throttle as they were and calls no
\* onChange.
C19_OnlyPrimaryReleaseEndsDrag ==
  [][/\ (isDragging /\ ~isDragging') => DragStopStep
     /\ ev' = "mouseup-other" =>
          /\ UNCHANGED <<isDragging, width, handleDrag, handleDragStop, throttledOnChange>>
          /\ out' = <<>>]_vars

\* A release of another button in a drag whose throttle is live.
C19_Witness ==
  /\ ev = "mouseup-other" /\ isDragging /\ handleDrag.on /\ handleDragStop.on
  /\ throttledOnChange.callback # None /\ ~throttledOnChange.cancelled

\* C20: a primary mousedown while Dragging changes nothing: the state stays
\* Dragging with the listeners it had, and the primary mouseup right after it
\* ends the drag with at most one onChange call; a primary mousedown while
\* Idle, after a completed drag as well, enters Dragging with both listeners
\* registered.
C20_SecondPressKeepsOneSession ==
  [][/\ (ev' = "mousedown" /\ isDragging) =>
          /\ UNCHANGED <<isDragging, width, handleDrag, handleDragStop, throttledOnChange>>
          /\ out' = <<>>
     /\ (ev' = "mousedown" /\ ~isDragging) =>
          (isDragging' /\ handleDrag'.on /\ handleDragStop'.on)
     /\ (ev = "mousedown" /\ DragStopStep) =>
          /\ ~isDragging' /\ ~handleDrag'.on /\ ~handleDragStop'.on
          /\ Len(out') = IF handleDragStop.onChange = None THEN 0 ELSE 1]_vars

\* A second press in a drag that follows a completed one: the throttle of the
\* first drag is cancelled, and the press found a moved width not rendered yet,
\* which the render of a first press would have shown.
C20_Witness ==
  /\ ev = "mousedown" /\ isDragging /\ handleDrag.on /\ handleDragStop.on
  /\ throttledOnChange.cancelled
  /\ ~dom.leftPaneFull /\ width # dom.leftPaneWidth /\ width # initialWidth

\* C21 (as claimed): a mousemove handled while Dragging computes the width
\* from the container bounds and the minimumWidths current at the time of the
\* move.
C21_MoveUsesCurrentBounds ==
  [][DragStep =>
       width' = NewWidth([on |-> TRUE, x |-> size.x, width |-> size.width,
                          minimumWidths |-> minimumWidths], evClientX')]_vars

\* C22 (as claimed): every onChange call of a pointer step goes to the onChange
\* supplied last, and a handled primary mouseup calls it exactly once.
C22_CallsGoToLatestOnChange ==
  [][PointerStep =>
       /\ \A i \in 1..Len(out') : out'[i].fn = onChange
       /\ (DragStopStep /\ onChange # None) => Len(out') = 1]_vars

\* The step leaves showLabels of the RadioGroup as it was.
ShowLabelsUnchanged == radio'.showLabels = radio.showLabels

\* showLabels goes from true to false only in the effect of sizes whose base
\* height is above HEIGHT_LIMIT, and from false to true only in the effect of
\* sizes measured with the original width below the parent's width minus
\* PARENT_WIDTH_BUFFER.
ShowLabelsChangesOnlyBySizes ==
  /\ (radio.showLabels /\ ~radio'.showLabels) =>
       (radio'.ev = "effect" /\ radio.sizes.baseHeight > HEIGHT_LIMIT)
  /\ (~radio.showLabels /\ radio'.showLabels) =>
       /\ radio'.ev = "effect"
       /\ radio.originalWidth < radio.parentRectWidth - PARENT_WIDTH_BUFFER

\* C23 (as claimed): showLabels starts true and changes only as above, and no
\* step changes it while no option has an icon and a label, while the measured
\* base width is 0, while the measured width of the parent is 0, or while no
\* original width is recorded.
C23_ShowLabelsUnchangedOnZeroParentWidth ==
  /\ radio.ev = "mount" => radio.showLabels
  /\ [][/\ ShowLabelsChangesOnlyBySizes
        /\ ( \/ ~radio.hasIconsAndLabels
             \/ radio.sizes.baseWidth = 0
             \/ radio.parentRectWidth = 0
             \/ radio.originalWidth = 0 ) => ShowLabelsUnchanged]_vars

\* C23 (amended): the same, with the width of the parent that the sizes
\* record, which is the measured one minus PARENT_WIDTH_BUFFER, in place of
\* the measured one.
C23_ShowLabelsUnchangedOnZeroRecordedWidth ==
  /\ radio.ev = "mount" => radio.showLabels
  /\ [][/\ ShowLabelsChangesOnlyBySizes
        /\ ( \/ ~radio.hasIconsAndLabels
             \/ radio.sizes.baseWidth = 0
             \/ radio.sizes.parentWidth = 0
             \/ radio.originalWidth = 0 ) => ShowLabelsUnchanged]_vars

\* The effect ran on sizes of a parent exactly PARENT_WIDTH_BUFFER wide, with a
\* base too high for the labels, and the labels still show.
C23_Witness ==
  /\ radio.ev = "effect" /\ radio.hasIconsAndLabels /\ radio.showLabels
  /\ radio.originalWidth # 0 /\ radio.sizes.baseWidth # 0
  /\ radio.sizes.baseHeight > HEIGHT_LIMIT
  /\ radio.parentRectWidth = PARENT_WIDTH_BUFFER

\* C24: once a measurement has recorded a nonzero original width, no step
\* changes it.
C24_OriginalWidthWriteOnce ==
  [][radio.originalWidth # 0 => radio'.originalWidth = radio.originalWidth]_vars

\* A measurement of another nonzero base width, with the labels hidden, has
\* left the recorded original width.
C24_Witness ==
  /\ radio.ev = "measure" /\ ~radio.showLabels
  /\ radio.originalWidth # 0 /\ radio.sizes.baseWidth # 0
  /\ radio.sizes.baseWidth # radio.originalWidth

\* The calls of the last step of the table to the prop fn.
CallsOf(t, fn) == SelectSeq(t.calls, LAMBDA c : c.fn = fn)

\* The last step of the table was onColumnMoved for a static column.
StaticMove == table.ev = "move" /\ table.args[1] < Len(table.staticColumns)

\* The last step of the table was onColumnMoved for a column that is not static.
SortableMove == table.ev = "move" /\ table.args[1] >= Len(table.staticColumns)

\* C25: onColumnMoved with a source index below staticColumns.length calls
\* neither onPinnedColumnsCountChange nor onSortableColumnChange, whatever the
\* destination.
C25_StaticColumnsStay == StaticMove => table.calls = <<>>

\* A static column was dragged into the unpinned columns of a table with every
\* handler.
C25_Witness ==
  /\ StaticMove /\ table.handlers = AllHandlers
  /\ table.args[2] >= Len(table.staticColumns) + table.pinnedColumnsCount

\* C26: after onColumnMoved for a column that is not static, with the handlers
\* supplied: onSortableColumnChange got one list, a permutation of
\* sortableColumnIds with the moved column at max(destination -
\* staticColumns.length, 0); onPinnedColumnsCountChange got at most one call,
\* pinnedColumnsCount + 1 exactly for a move from at or after the end of the
\* pinned columns to before it, pinnedColumnsCount - 1 exactly for a move from
\* before it to at or after it, and a count within 0..sortableColumnIds.length.
C26_MovedColumnAndPinnedCount ==
  (SortableMove /\ table.handlers = AllHandlers) =>
    LET startIdx == table.args[1]
        endIdx == table.args[2]
        static == Len(table.staticColumns)
        ids == table.sortableColumnIds
        pinnedEnd == static + table.pinnedColumnsCount
        lists == CallsOf(table, "onSortableColumnChange")
        counts == CallsOf(table, "onPinnedColumnsCountChange")
        into == startIdx >= pinnedEnd /\ endIdx < pinnedEnd
        outOf == startIdx < pinnedEnd /\ endIdx >= pinnedEnd
        to == IF endIdx - static > 0 THEN endIdx - static ELSE 0
    IN /\ Len(lists) = 1
       /\ Len(lists[1].cols) = Len(ids)
       /\ {lists[1].cols[i] : i \in 1..Len(ids)} = {ids[i] : i \in 1..Len(ids)}
       /\ lists[1].cols[to + 1] = ids[startIdx - static + 1]
       /\ Len(counts) <= 1
       /\ into <=> (Len(counts) = 1 /\ counts[1].count = table.pinnedColumnsCount + 1)
       /\ outOf <=> (Len(counts) = 1 /\ counts[1].count = table.pinnedColumnsCount - 1)
       /\ \A i \in 1..Len(counts) : counts[i].count \in 0..Len(ids)

\* The last sortable column was dropped on the static columns of a table with
\* one pinned column: it is first in the new list and the count is 2.
C26_Witness ==
  /\ SortableMove /\ table.handlers = AllHandlers
  /\ table.pinnedColumnsCount = 1
  /\ table.args = <<Len(table.staticColumns) + Len(table.sortableColumnIds) - 1, 0>>
  /\ Len(table.calls) = 2
  /\ table.calls[1].count = 2
  /\ table.calls[2].cols[1] = table.sortableColumnIds[Len(table.sortableColumnIds)]

\* C27: onCellClicked. On a row that is not loaded it does nothing. On a
\* loaded row, a link cell gets onLinkClick alone and leaves the last-clicked
\* cell; another cell becomes the last-clicked cell, and a plain click asks
\* 'remove' for a selected row and 'add' otherwise over [row, row + 1], a
\* shift-click asks the same over [min(prev, row), max(prev, row) + 1] for the
\* row prev clicked before, and nothing when no cell was clicked before.
C27_CellClick ==
  [][table'.ev = "click" =>
       LET col == table'.args[1]
           row == table'.args[2]
           shiftKey == table'.args[3]
           prev == table.clickedCellRef
           type == IF row \in table.selection THEN "remove" ELSE "add"
           supplied == table.handlers = AllHandlers
           none == table'.calls = <<>>
       IN IF row \notin table.loaded
          THEN none /\ table'.clickedCellRef = prev
          ELSE IF col \in LinkColumns
          THEN /\ table'.clickedCellRef = prev
               /\ IF supplied
                  THEN table'.calls = <<[fn |-> "onLinkClick", col |-> col, row |-> row]>>
                  ELSE none
          ELSE /\ table'.clickedCellRef = [col |-> col, row |-> row]
               /\ IF ~supplied \/ (shiftKey /\ prev = NoCell)
                  THEN none
                  ELSE table'.calls =
                         <<[fn |-> "onSelectionChange", type |-> type,
                            range |-> IF shiftKey
                                      THEN <<MathMin(prev.row, row), MathMax(prev.row, row) + 1>>
                                      ELSE <<row, row + 1>>]>>]_vars

\* A shift-click on the selected row 1, above the row 2 clicked before, asked
\* to remove the rows 1 and 2.
C27_Witness ==
  /\ table.ev = "click" /\ table.args[2] = 1 /\ table.args[3]
  /\ table.calls = <<[fn |-> "onSelectionChange", type |-> "remove", range |-> <<1, 3>>]>>

\* C28: scrollPositionSetCount changes only in a render that found it below
\* SCROLL_SET_COUNT_NEEDED, the grid ref set and the bounds valid, by one and
\* together with the scrollTo to the row max(page * pageSize, 0); so the count
\* never exceeds 1 and the initial scrollTo happens at most once.
C28_InitialScrollOnce ==
  /\ [](table.scrollPositionSetCount <= 1 /\ table.scrolls <= 1)
  /\ [][LET changed == table'.scrollPositionSetCount # table.scrollPositionSetCount
            scrolled == table'.ev = "render" /\ table'.calls # <<>>
            product == table.page * table.pageSize
        IN /\ changed <=> scrolled
           /\ changed =>
                /\ table.scrollPositionSetCount < SCROLL_SET_COUNT_NEEDED
                /\ table'.args = <<TRUE, TRUE>>
                /\ table'.scrollPositionSetCount = table.scrollPositionSetCount + 1
                /\ table'.calls = <<[fn |-> "scrollTo", col |-> 0,
                                     row |-> IF product > 0 THEN product ELSE 0]>>]_vars

\* A render that could scroll after the initial scroll of a table on a
\* negative page: it left the count at 1.
C28_Witness ==
  /\ table.ev = "render" /\ table.args = <<TRUE, TRUE>> /\ table.calls = <<>>
  /\ table.scrollPositionSetCount = 1 /\ table.scrolls = 1 /\ table.page < 0
====
